---------------------------- MODULE Spec2Model ----------------------------
(***************************************************************************)
(* Crop Recommendation API (backend/main.py).                              *)
(*                                                                         *)
(* Seven specifications share this module:                                  *)
(*   Spec       the weather acquisition layer: concurrent /recommend       *)
(*              requests (FastAPI runs a sync handler on a thread pool)    *)
(*              executing fetch_forecast statement by statement against    *)
(*              the module globals _weather_cache and _last_owm_call_ts;   *)
(*   SpecSeq    the same statements with requests served one at a time;    *)
(*   SpecLive   Spec under fair scheduling, a clock that keeps running     *)
(*              and a provider that always answers;                        *)
(*   SpecCache  _cache_get / _cache_put called one at a time;              *)
(*   SpecAgg    aggregate_forecast applied to a bounded forecast;          *)
(*   SpecScore  the scoring part of recommend applied to a bounded         *)
(*              request and weather summary;                               *)
(*   SpecBucket the cache key of a coordinate pair and of a nearby pair.   *)
(*                                                                         *)
(* Units.  Time is counted in ticks; coordinates in 1/1000 degree and      *)
(* buckets in 1/100 degree; pH in 1/20; temperatures in 1/10 degree C;     *)
(* raw precipitation in 1/100 mm and the rounded sum in 1/10 mm.  Floats   *)
(* are modelled as exact decimals: binary rounding error is not modelled.  *)
(***************************************************************************)
EXTENDS Integers, Sequences, FiniteSets, TLC

VARIABLES
    \* ---- process state (main.py:30-36) and the clock time.time()
    now,          \* time.time()
    has_key,      \* bool(OPENWEATHER_KEY)
    cache,        \* _weather_cache: key -> [ts, data]
    last_ts,      \* _last_owm_call_ts
    \* ---- one in-flight fetch_forecast per worker thread
    pc,           \* position of each thread in fetch_forecast
    req,          \* (lat, lon) of the thread's request (<< >>: none)
    v,            \* _cache_get's local v
    wake,         \* end of the time.sleep of _respect_rate_limit
    data,         \* fetch_forecast's local data (resp.json())
    result,       \* what fetch_forecast returned or raised
    \* ---- observers (not program state)
    hit,          \* payload of the unexpired entry the thread's lookup found
    attempts,     \* provider calls made by the thread's current fetch
    spaced,       \* no two returns of _respect_rate_limit were too close so far
    nfetch,       \* number of fetches started so far
    touched,      \* what the thread's current fetch did to _weather_cache
    \* ---- SpecCache: the last cache operation and what _cache_get returned
    cop, got, lastput,
    \* ---- SpecAgg
    fc, hours, agg, nslots,
    \* ---- SpecScore
    soil, ph, weather, results,
    \* ---- SpecBucket: two nearby coordinate pairs and their cache keys
    lat, lon, eps, keys

sysVars   == <<now, has_key, cache, last_ts, pc, req, v, wake, data, result,
               hit, attempts, spaced, nfetch, touched>>
cacheVars == <<cop, got, lastput>>
aggVars   == <<fc, hours, agg, nslots>>
scoreVars == <<soil, ph, weather, results>>
bucketVars == <<lat, lon, eps, keys>>
vars      == <<sysVars, cacheVars, aggVars, scoreVars, bucketVars>>
notSys    == <<cacheVars, aggVars, scoreVars, bucketVars>>

\* Python's None where an object is expected; an optional number is the
\* empty tuple (absent) or a 1-tuple.
None == [none |-> TRUE]
Absent == << >>
Some(x) == << x >>

Max(a, b) == IF a >= b THEN a ELSE b
Min(a, b) == IF a <= b THEN a ELSE b
Abs(a)    == IF a >= 0 THEN a ELSE -a

(***************************************************************************)
(* Configuration (environment variables, main.py:30-33).  CACHE_TTL and    *)
(* OWM_MIN_INTERVAL are deployment settings; the model runs a deployment   *)
(* with a TTL of 3 ticks and a minimum interval of 2 ticks (the defaults   *)
(* are 600 s and 1.2 s).  FORECAST_HOURS keeps its default.                *)
(***************************************************************************)
CACHE_TTL == 3
OWM_MIN_INTERVAL == 2
FORECAST_HOURS == 72

(***************************************************************************)
(* Bounds of the model.                                                    *)
(***************************************************************************)
MaxFetches == 3      \* fetches started in one behaviour
Horizon    == 4      \* ticks the clock advances
MaxSeries  == 4      \* samples in a forecast series
MaxHours   == 10     \* largest forecast horizon tried

\* Two worker threads of the pool serve requests at the same time: the
\* interleavings of one request with another are those of a pair.
Threads == {1, 2}
\* time.time() is seconds since the epoch: far more than the TTL or the
\* interval, while _last_owm_call_ts starts at 0.0.
T0      == CACHE_TTL + OWM_MIN_INTERVAL
MaxTime == T0 + Horizon

(***************************************************************************)
(* Payloads.  A JSON object is a record of the set of its keys and the     *)
(* value of "list".  A sample of the series carries main.temp, rain.3h     *)
(* and snow.3h, each possibly absent (None).                               *)
(***************************************************************************)
Sample(t, r, s) == [temp |-> t, rain |-> r, snow |-> s]
Dict(ks, l)     == [keys |-> ks, list |-> l]
EmptyDict == Dict({}, << >>)                      \* {}
Stub      == Dict({"list"}, << >>)                \* {"list": []}
FcA       == Dict({"list", "cod"}, << Sample(Some(250), Some(200), Absent) >>)
FcB       == Dict({"list", "cod"}, << Sample(Some(180), Absent, Absent) >>)
ProviderPayloads == {EmptyDict, FcA}

\* Python truthiness of a dict: non-empty.
Truthy(d) == d # None /\ d.keys # {}

(***************************************************************************)
(* CoordinateKey.                                                          *)
(***************************************************************************)
\* math.floor(x * 100 + 0.5) / 100, x in 1/1000 degree, result in 1/100.
\* (a \div b is the floor of a / b.)
\* int(x * m) / m: truncation toward zero
_round_coord_trunc(x) == IF x >= 0 THEN x \div 10 ELSE -((-x) \div 10)
_round_coord(x) == (x + 5) \div 10

CoordKey(kind, la, lo) == <<kind, _round_coord(la), _round_coord(lo)>>

\* Request coordinates: the first two share a bucket, the third does not.
Points == { <<12344, 77002>>, <<12338, 76996>>, <<12346, 77002>> }
KeyOf(p) == CoordKey("forecast", p[1], p[2])

(***************************************************************************)
(* WeatherCache.                                                           *)
(***************************************************************************)
Entry(ts, d) == [ts |-> ts, data |-> d]

\* v = _weather_cache.get(key)
CacheLookup(c, k) == IF k \in DOMAIN c THEN c[k] ELSE None

\* time.time() - ts <= CACHE_TTL
FreshAlways(e, t) == TRUE
Fresh(e, t) == t - e.ts <= CACHE_TTL

\* _weather_cache.pop(key, None)
CachePop(c, k) == [x \in DOMAIN c \ {k} |-> c[x]]

\* _weather_cache[key] = (time.time(), data)
CacheStoreKeep(c, k, t, d) == IF k \in DOMAIN c THEN c ELSE (k :> Entry(t, d)) @@ c
CacheStore(c, k, t, d) == (k :> Entry(t, d)) @@ c

\* _cache_get as one call: the value returned and the cache it leaves.
CacheGetValue(c, k, t) ==
    LET e == CacheLookup(c, k)
    IN  IF e = None THEN None
        ELSE IF Fresh(e, t) THEN e.data
        ELSE None
CacheGetCache(c, k, t) ==
    LET e == CacheLookup(c, k)
    IN  IF e = None THEN c
        ELSE IF Fresh(e, t) THEN c
        ELSE CachePop(c, k)

(***************************************************************************)
(* The provider (requests.get and resp.json()): a transport error raised   *)
(* by requests.get, or a response with a status and a body; json = None    *)
(* is a body resp.json() cannot parse.                                     *)
(***************************************************************************)
Transport(e)       == [exc |-> e, status |-> 0, json |-> None]
Resp(status, json) == [exc |-> "", status |-> status, json |-> json]
\* the JSON body of an error answer: {"cod": ..., "message": ...}
ErrBody == Dict({"cod", "message"}, << >>)
Outcomes ==
    { Transport("ConnectionError"), Transport("Timeout"),
      Resp(429, ErrBody), Resp(500, None), Resp(200, None) }
    \cup { Resp(200, p) : p \in ProviderPayloads }

\* What a fetch ends in: a returned payload or a raised exception.
Ok(d)    == [ok |-> d]
Raise(e) == [raise |-> e]
IsOk(r)    == r # None /\ "ok" \in DOMAIN r
IsRaise(r) == r # None /\ "raise" \in DOMAIN r

(***************************************************************************)
(* Spec: concurrent fetch_forecast.                                        *)
(***************************************************************************)
SysInit ==
    /\ now = T0
    /\ has_key \in BOOLEAN
    /\ cache = << >>
    /\ last_ts = 0
    /\ pc = [t \in Threads |-> "idle"]
    /\ req = [t \in Threads |-> << >>]
    /\ v = [t \in Threads |-> None]
    /\ wake = [t \in Threads |-> 0]
    /\ data = [t \in Threads |-> None]
    /\ result = [t \in Threads |-> None]
    /\ hit = [t \in Threads |-> None]
    /\ attempts = [t \in Threads |-> 0]
    /\ spaced = TRUE
    /\ nfetch = 0
    /\ touched = [t \in Threads |-> ""]

CacheIdle == cop = None /\ got = None /\ lastput = << >>
AggIdle   == fc = None /\ hours = 0 /\ agg = None /\ nslots = 0
ScoreIdle == soil = "" /\ ph = 0 /\ weather = None /\ results = << >>
BucketIdle == lat = 0 /\ lon = 0 /\ eps = 0 /\ keys = None

Init == SysInit /\ CacheIdle /\ AggIdle /\ ScoreIdle /\ BucketIdle

\* recommend (main.py:119) calls fetch_forecast(req.lat, req.lon).
Start(t, p) ==
    /\ pc[t] = "idle"
    /\ nfetch < MaxFetches
    /\ pc' = [pc EXCEPT ![t] = "fetch"]
    /\ req' = [req EXCEPT ![t] = p]
    /\ nfetch' = nfetch + 1
    /\ UNCHANGED <<now, has_key, cache, last_ts, v, wake, data, result, hit,
                   attempts, spaced,
                   touched>>
    /\ UNCHANGED notSys

CheckKeyIgnored(t) ==
    /\ pc[t] = "fetch"
    /\ pc' = [pc EXCEPT ![t] = "cache_get"]
    /\ UNCHANGED <<now, has_key, cache, last_ts, req, v, wake, data, hit,
                   result, attempts, spaced, nfetch,
                   touched>>
    /\ UNCHANGED notSys

\* main.py:65-66
CheckKey(t) ==
    /\ pc[t] = "fetch"
    /\ IF ~has_key
       THEN /\ result' = [result EXCEPT ![t] = Ok(Stub)]
            /\ pc' = [pc EXCEPT ![t] = "done"]
       ELSE /\ pc' = [pc EXCEPT ![t] = "cache_get"]
            /\ UNCHANGED result
    /\ UNCHANGED <<now, has_key, cache, last_ts, req, v, wake, data, hit,
                   attempts, spaced, nfetch,
                   touched>>
    /\ UNCHANGED notSys

\* main.py:43-45 (and 68 when the lookup finds nothing)
CacheGetLookup(t) ==
    /\ pc[t] = "cache_get"
    /\ LET e == CacheLookup(cache, KeyOf(req[t]))
       IN  /\ v' = [v EXCEPT ![t] = e]
           /\ pc' = [pc EXCEPT ![t] = IF e = None THEN "rate_limit" ELSE "cache_ttl"]
    /\ UNCHANGED <<now, has_key, cache, last_ts, req, wake, data, result, hit,
                   attempts, spaced, nfetch,
                   touched>>
    /\ UNCHANGED notSys

\* main.py:46-48, then 68-69 on the value returned
CacheGetTtl(t) ==
    /\ pc[t] = "cache_ttl"
    /\ IF Fresh(v[t], now)
       THEN /\ hit' = [hit EXCEPT ![t] = v[t].data]
            /\ v' = [v EXCEPT ![t] = None]
            /\ IF Truthy(v[t].data)
               THEN /\ result' = [result EXCEPT ![t] = Ok(v[t].data)]
                    /\ pc' = [pc EXCEPT ![t] = "done"]
               ELSE /\ pc' = [pc EXCEPT ![t] = "rate_limit"]
                    /\ UNCHANGED result
       ELSE /\ pc' = [pc EXCEPT ![t] = "cache_pop"]
            /\ v' = [v EXCEPT ![t] = None]
            /\ UNCHANGED <<hit, result>>
    /\ UNCHANGED <<now, has_key, cache, last_ts, req, wake, data, attempts,
                   spaced, nfetch,
                   touched>>
    /\ UNCHANGED notSys

\* main.py:49-50
CacheGetPop(t) ==
    /\ pc[t] = "cache_pop"
    /\ cache' = CachePop(cache, KeyOf(req[t]))
    /\ touched' = [touched EXCEPT ![t] =
                      IF KeyOf(req[t]) \in DOMAIN cache THEN "removed" ELSE @]
    /\ pc' = [pc EXCEPT ![t] = "rate_limit"]
    /\ UNCHANGED <<now, has_key, last_ts, req, v, wake, data, result, hit,
                   attempts, spaced, nfetch>>
    /\ UNCHANGED notSys

RateLimitReadNoSleep(t) ==
    /\ pc[t] = "rate_limit"
    /\ wake' = [wake EXCEPT ![t] = 0]
    /\ pc' = [pc EXCEPT ![t] = "stamp"]
    /\ UNCHANGED <<now, has_key, cache, last_ts, req, v, data, result, hit,
                   attempts, spaced, nfetch, touched>>
    /\ UNCHANGED notSys

\* main.py:58-60: read the elapsed time and, if it is short, sleep for the
\* rest of the interval: wake is when time.sleep may return (0 when there
\* is no sleep).
RateLimitRead(t) ==
    /\ pc[t] = "rate_limit"
    /\ LET elapsed == now - last_ts
       IN  wake' = [wake EXCEPT ![t] =
                      IF elapsed < OWM_MIN_INTERVAL
                      THEN now + (OWM_MIN_INTERVAL - elapsed) ELSE 0]
    /\ pc' = [pc EXCEPT ![t] = "stamp"]
    /\ UNCHANGED <<now, has_key, cache, last_ts, req, v, data, result, hit,
                   attempts, spaced, nfetch,
                   touched>>
    /\ UNCHANGED notSys

\* main.py:61: once any sleep is over, record the timestamp and return
RateLimitStamp(t) ==
    /\ pc[t] = "stamp"
    /\ now >= wake[t]
    /\ wake' = [wake EXCEPT ![t] = 0]
    /\ last_ts' = now
    \* last_ts is the time of the previous return (0.0: there was none)
    /\ spaced' = (spaced /\ (last_ts = 0 \/ now - last_ts >= OWM_MIN_INTERVAL))
    /\ pc' = [pc EXCEPT ![t] = "call"]
    /\ UNCHANGED <<now, has_key, cache, req, v, data, result, hit,
                   attempts, nfetch,
                   touched>>
    /\ UNCHANGED notSys

\* requests.get without timeout=: a provider that never answers leaves the
\* thread in the call for good.
ProviderCallNoTimeout(t, o) ==
    /\ pc[t] = "call"
    /\ attempts' = [attempts EXCEPT ![t] = @ + 1]
    /\ IF o = Transport("Timeout")
       THEN /\ pc' = [pc EXCEPT ![t] = "hung"]
            /\ UNCHANGED <<result, data>>
       ELSE IF o.exc # ""
       THEN /\ result' = [result EXCEPT ![t] = Raise(o.exc)]
            /\ pc' = [pc EXCEPT ![t] = "done"]
            /\ UNCHANGED data
       ELSE IF o.status # 200
       THEN /\ result' = [result EXCEPT ![t] = Raise("HTTPException502")]
            /\ pc' = [pc EXCEPT ![t] = "done"]
            /\ UNCHANGED data
       ELSE IF o.json = None
       THEN /\ result' = [result EXCEPT ![t] = Raise("JSONDecodeError")]
            /\ pc' = [pc EXCEPT ![t] = "done"]
            /\ UNCHANGED data
       ELSE /\ data' = [data EXCEPT ![t] = o.json]
            /\ pc' = [pc EXCEPT ![t] = "cache_put"]
            /\ UNCHANGED result
    /\ UNCHANGED <<now, has_key, cache, last_ts, req, v, wake, hit, spaced,
                   nfetch, touched>>
    /\ UNCHANGED notSys

\* Variants of the provider call: one that stores the body of a non-200
\* answer before raising, one that falls back to whatever the cache holds
\* under the key when the call fails, one that retries.
ProviderCallPutFirst(t, o) ==
    /\ pc[t] = "call"
    /\ attempts' = [attempts EXCEPT ![t] = @ + 1]
    /\ IF o.exc # ""
       THEN /\ result' = [result EXCEPT ![t] = Raise(o.exc)]
            /\ pc' = [pc EXCEPT ![t] = "done"]
            /\ UNCHANGED <<data, cache>>
       ELSE IF o.json = None
       THEN /\ result' = [result EXCEPT ![t] = Raise("JSONDecodeError")]
            /\ pc' = [pc EXCEPT ![t] = "done"]
            /\ UNCHANGED <<data, cache>>
       ELSE IF o.status # 200
       THEN /\ cache' = CacheStore(cache, KeyOf(req[t]), now, o.json)
            /\ result' = [result EXCEPT ![t] = Raise("HTTPException502")]
            /\ pc' = [pc EXCEPT ![t] = "done"]
            /\ UNCHANGED data
       ELSE /\ data' = [data EXCEPT ![t] = o.json]
            /\ pc' = [pc EXCEPT ![t] = "cache_put"]
            /\ UNCHANGED <<result, cache>>
    /\ UNCHANGED <<now, has_key, last_ts, req, v, wake, hit, spaced, nfetch,
                   touched>>
    /\ UNCHANGED notSys

ProviderCallStale(t, o) ==
    /\ pc[t] = "call"
    /\ attempts' = [attempts EXCEPT ![t] = @ + 1]
    /\ IF o.exc # "" \/ o.status # 200 \/ o.json = None
       THEN /\ result' = [result EXCEPT ![t] =
                            IF KeyOf(req[t]) \in DOMAIN cache
                            THEN Ok(cache[KeyOf(req[t])].data)
                            ELSE Raise("HTTPException502")]
            /\ pc' = [pc EXCEPT ![t] = "done"]
            /\ UNCHANGED data
       ELSE /\ data' = [data EXCEPT ![t] = o.json]
            /\ pc' = [pc EXCEPT ![t] = "cache_put"]
            /\ UNCHANGED result
    /\ UNCHANGED <<now, has_key, cache, last_ts, req, v, wake, hit, spaced,
                   nfetch, touched>>
    /\ UNCHANGED notSys

ProviderCallRetry(t, o) ==
    /\ pc[t] = "call"
    /\ attempts' = [attempts EXCEPT ![t] = @ + 1]
    /\ IF o.exc # "" \/ o.status # 200 \/ o.json = None
       THEN IF attempts[t] + 1 < 3
            THEN UNCHANGED <<pc, result, data>>
            ELSE /\ result' = [result EXCEPT ![t] = Raise("HTTPException502")]
                 /\ pc' = [pc EXCEPT ![t] = "done"]
                 /\ UNCHANGED data
       ELSE /\ data' = [data EXCEPT ![t] = o.json]
            /\ pc' = [pc EXCEPT ![t] = "cache_put"]
            /\ UNCHANGED result
    /\ UNCHANGED <<now, has_key, cache, last_ts, req, v, wake, hit, spaced, nfetch,
                   touched>>
    /\ UNCHANGED notSys

\* main.py:73-76: the provider call and what its answer leads to
ProviderCall(t, o) ==
    /\ pc[t] = "call"
    /\ attempts' = [attempts EXCEPT ![t] = @ + 1]
    /\ IF o.exc # ""
       THEN /\ result' = [result EXCEPT ![t] = Raise(o.exc)]
            /\ pc' = [pc EXCEPT ![t] = "done"]
            /\ UNCHANGED data
       ELSE IF o.status # 200
       THEN /\ result' = [result EXCEPT ![t] = Raise("HTTPException502")]
            /\ pc' = [pc EXCEPT ![t] = "done"]
            /\ UNCHANGED data
       ELSE IF o.json = None
       THEN /\ result' = [result EXCEPT ![t] = Raise("JSONDecodeError")]
            /\ pc' = [pc EXCEPT ![t] = "done"]
            /\ UNCHANGED data
       ELSE /\ data' = [data EXCEPT ![t] = o.json]
            /\ pc' = [pc EXCEPT ![t] = "cache_put"]
            /\ UNCHANGED result
    /\ UNCHANGED <<now, has_key, cache, last_ts, req, v, wake, hit, spaced, nfetch,
                   touched>>
    /\ UNCHANGED notSys

\* main.py:77-78
CachePutReturn(t) ==
    /\ pc[t] = "cache_put"
    /\ cache' = CacheStore(cache, KeyOf(req[t]), now, data[t])
    /\ result' = [result EXCEPT ![t] = Ok(data[t])]
    /\ data' = [data EXCEPT ![t] = None]
    /\ touched' = [touched EXCEPT ![t] = "stored"]
    /\ pc' = [pc EXCEPT ![t] = "done"]
    /\ UNCHANGED <<now, has_key, last_ts, req, v, wake, hit, attempts,
                   spaced, nfetch>>
    /\ UNCHANGED notSys

\* The handler ends; the worker thread is free for the next request.
Return(t) ==
    /\ pc[t] = "done"
    /\ pc' = [pc EXCEPT ![t] = "idle"]
    /\ req' = [req EXCEPT ![t] = << >>]
    /\ v' = [v EXCEPT ![t] = None]
    /\ data' = [data EXCEPT ![t] = None]
    /\ result' = [result EXCEPT ![t] = None]
    /\ hit' = [hit EXCEPT ![t] = None]
    /\ attempts' = [attempts EXCEPT ![t] = 0]
    /\ touched' = [touched EXCEPT ![t] = ""]
    /\ UNCHANGED <<now, has_key, cache, last_ts, wake, spaced, nfetch>>
    /\ UNCHANGED notSys

\* time passes
Tick ==
    /\ now < MaxTime
    /\ now' = now + 1
    /\ UNCHANGED <<has_key, cache, last_ts, pc, req, v, wake, data, result, hit,
                   attempts, spaced, nfetch,
                   touched>>
    /\ UNCHANGED notSys

SysNext ==
    \/ \E t \in Threads, p \in Points : Start(t, p)
    \/ \E t \in Threads : CheckKey(t)
    \/ \E t \in Threads : CacheGetLookup(t)
    \/ \E t \in Threads : CacheGetTtl(t)
    \/ \E t \in Threads : CacheGetPop(t)
    \/ \E t \in Threads : RateLimitRead(t)
    \/ \E t \in Threads : RateLimitStamp(t)
    \/ \E t \in Threads, o \in Outcomes : ProviderCall(t, o)
    \/ \E t \in Threads : CachePutReturn(t)
    \/ \E t \in Threads : Return(t)
    \/ Tick

Next == SysNext

Spec == Init /\ [][Next]_vars

(***************************************************************************)
(* SpecSeq: the same statements with requests served one at a time: a      *)
(* request starts only when no other is in flight.                         *)
(***************************************************************************)
SeqStart(t, p) ==
    /\ \A u \in Threads : pc[u] = "idle"
    /\ Start(t, p)

SeqNext ==
    \/ \E t \in Threads, p \in Points : SeqStart(t, p)
    \/ \E t \in Threads : CheckKey(t)
    \/ \E t \in Threads : CacheGetLookup(t)
    \/ \E t \in Threads : CacheGetTtl(t)
    \/ \E t \in Threads : CacheGetPop(t)
    \/ \E t \in Threads : RateLimitRead(t)
    \/ \E t \in Threads : RateLimitStamp(t)
    \/ \E t \in Threads, o \in Outcomes : ProviderCall(t, o)
    \/ \E t \in Threads : CachePutReturn(t)
    \/ \E t \in Threads : Return(t)
    \/ Tick

SpecSeq == Init /\ [][SeqNext]_vars

(***************************************************************************)
(* SpecLive: Spec under the scheduling the runtime provides.  Every thread *)
(* of the pool that can take a step eventually takes one; requests.get     *)
(* returns or raises within its timeout (timeout=10, main.py:73), so the   *)
(* call is a step like the others.  The clock keeps running: it is         *)
(* stopped at MaxTime only while no thread sleeps in time.sleep.           *)
(***************************************************************************)
\* Two buckets, and one provider answer of each kind the code tells apart:
\* requests.get raising, a non-200 status, a body that does not parse, an
\* empty and a non-empty payload.
LivePoints == { <<12344, 77002>>, <<12346, 77002>> }
LiveOutcomes ==
    { Transport("Timeout"), Resp(429, ErrBody), Resp(200, None),
      Resp(200, EmptyDict), Resp(200, FcA) }

Sleeping(t) == pc[t] = "stamp" /\ now < wake[t]

LiveTick ==
    /\ now < MaxTime \/ \E t \in Threads : Sleeping(t)
    /\ now' = now + 1
    /\ UNCHANGED <<has_key, cache, last_ts, pc, req, v, wake, data, result, hit,
                   attempts, spaced, nfetch, touched>>
    /\ UNCHANGED notSys

\* the next statement of thread t's fetch_forecast
Step(t) ==
    \/ CheckKey(t)
    \/ CacheGetLookup(t)
    \/ CacheGetTtl(t)
    \/ CacheGetPop(t)
    \/ RateLimitRead(t)
    \/ RateLimitStamp(t)
    \/ \E o \in LiveOutcomes : ProviderCall(t, o)
    \/ CachePutReturn(t)

LiveNext ==
    \/ \E t \in Threads, p \in LivePoints : Start(t, p)
    \/ \E t \in Threads : CheckKey(t)
    \/ \E t \in Threads : CacheGetLookup(t)
    \/ \E t \in Threads : CacheGetTtl(t)
    \/ \E t \in Threads : CacheGetPop(t)
    \/ \E t \in Threads : RateLimitRead(t)
    \/ \E t \in Threads : RateLimitStamp(t)
    \/ \E t \in Threads, o \in LiveOutcomes : ProviderCall(t, o)
    \/ \E t \in Threads : CachePutReturn(t)
    \/ \E t \in Threads : Return(t)
    \/ LiveTick

Fairness ==
    /\ WF_vars(LiveTick)
    /\ \A t \in Threads : WF_vars(Step(t))

SpecLive == Init /\ [][LiveNext]_vars /\ Fairness

(***************************************************************************)
(* SpecCache: _cache_get and _cache_put called one at a time, with the     *)
(* clock advancing between calls.  cop is the last call (and its time),    *)
(* got what the last _cache_get returned, lastput the last entry put       *)
(* under each key.                                                         *)
(***************************************************************************)
CachePayloads == ProviderPayloads \cup {FcB}
Op(op, k, d, t) == [op |-> op, key |-> k, data |-> d, at |-> t]

SysIdle ==
    /\ has_key = TRUE
    /\ last_ts = 0
    /\ pc = [t \in Threads |-> "idle"]
    /\ req = [t \in Threads |-> << >>]
    /\ v = [t \in Threads |-> None]
    /\ wake = [t \in Threads |-> 0]
    /\ data = [t \in Threads |-> None]
    /\ result = [t \in Threads |-> None]
    /\ hit = [t \in Threads |-> None]
    /\ attempts = [t \in Threads |-> 0]
    /\ spaced = TRUE
    /\ nfetch = 0
    /\ touched = [t \in Threads |-> ""]
sysRest == <<has_key, last_ts, pc, req, v, wake, data, result, hit, attempts,
             spaced, nfetch, touched>>

CacheInit ==
    /\ now = T0
    /\ cache = << >>
    /\ SysIdle /\ CacheIdle /\ AggIdle /\ ScoreIdle /\ BucketIdle

\* _cache_put(kind, lat, lon, data)
CPut(p, d) ==
    /\ cache' = CacheStore(cache, KeyOf(p), now, d)
    /\ cop' = Op("put", KeyOf(p), d, now)
    /\ got' = None
    /\ lastput' = (KeyOf(p) :> Entry(now, d)) @@ lastput
    /\ UNCHANGED now
    /\ UNCHANGED <<sysRest, aggVars, scoreVars, bucketVars>>

\* _cache_get(kind, lat, lon)
CGet(p) ==
    /\ got' = CacheGetValue(cache, KeyOf(p), now)
    /\ cache' = CacheGetCache(cache, KeyOf(p), now)
    /\ cop' = Op("get", KeyOf(p), None, now)
    /\ UNCHANGED <<now, lastput>>
    /\ UNCHANGED <<sysRest, aggVars, scoreVars, bucketVars>>

CTick ==
    /\ now < MaxTime
    /\ now' = now + 1
    /\ UNCHANGED <<cache, cop, got, lastput>>
    /\ UNCHANGED <<sysRest, aggVars, scoreVars, bucketVars>>

CacheNext ==
    \/ \E p \in Points, d \in CachePayloads : CPut(p, d)
    \/ \E p \in Points : CGet(p)
    \/ CTick

SpecCache == CacheInit /\ [][CacheNext]_vars

(***************************************************************************)
(* ForecastAggregator.                                                     *)
(***************************************************************************)
\* a / b rounded to the nearest integer, ties to even (Python's round on
\* the decimal value), b > 0.
RoundDiv(a, b) ==
    LET q == a \div b
        r == a % b
    IN  IF 2 * r < b THEN q
        ELSE IF 2 * r > b THEN q + 1
        ELSE IF q % 2 = 0 THEN q ELSE q + 1

\* forecast.get("list") or []
Steps(f) == IF "list" \in f.keys THEN f.list ELSE << >>

\* need = max(1, hours // 3)
NeedCeil(h) == Max(1, (h + 2) \div 3)
Need(h) == Max(1, h \div 3)

\* slots = steps[:need]
Slots(f, h) == SubSeq(Steps(f), 1, Min(Need(h), Len(Steps(f))))

\* the loop of main.py:87-92 over the slots: the temperatures collected ...
RECURSIVE Temps(_)
Temps(sl) ==
    IF sl = << >> THEN << >>
    ELSE (IF Head(sl).temp # Absent THEN << Head(sl).temp[1] >> ELSE << >>)
         \o Temps(Tail(sl))

\* ... and the precipitation summed, in 1/100 mm
OrZero(o) == IF o = Absent THEN 0 ELSE o[1]
RECURSIVE PrecipWithTemp(_)
PrecipWithTemp(sl) ==
    IF sl = << >> THEN 0
    ELSE (IF Head(sl).temp # Absent
          THEN OrZero(Head(sl).rain) + OrZero(Head(sl).snow) ELSE 0)
         + PrecipWithTemp(Tail(sl))
RECURSIVE Precip(_)
Precip(sl) ==
    IF sl = << >> THEN 0
    ELSE OrZero(Head(sl).rain) + OrZero(Head(sl).snow) + Precip(Tail(sl))

SeqMin(q) == CHOOSE x \in {q[i] : i \in DOMAIN q} : \A j \in DOMAIN q : x <= q[j]
SeqMax(q) == CHOOSE x \in {q[i] : i \in DOMAIN q} : \A j \in DOMAIN q : x >= q[j]

Summary(mn, mx, p) == [min_temp |-> mn, max_temp |-> mx, precip_sum_mm |-> p]

\* aggregate_forecast(forecast, hours); precip_sum_mm in 1/10 mm
aggregate_forecast(f, h) ==
    IF Steps(f) = << >> THEN Summary(Absent, Absent, 0)
    ELSE LET temps == Temps(Slots(f, h))
         IN  Summary(IF temps # << >> THEN Some(SeqMin(temps)) ELSE Absent,
                     IF temps # << >> THEN Some(SeqMax(temps)) ELSE Absent,
                     RoundDiv(Precip(Slots(f, h)), 10))

(***************************************************************************)
(* SpecAgg: aggregate_forecast applied to a forecast of up to MaxSeries    *)
(* samples and a horizon of 1..MaxHours hours.                             *)
(***************************************************************************)
\* amounts whose sums never end in 5 (1/100 mm): no sum is a rounding tie,
\* where the binary float and the decimal could round differently
Samples ==
    { Sample(Some(250), Some(124), Absent),
      Sample(Absent,    Some(40),  Some(30)),
      Sample(Some(180), Absent,    Absent),
      Sample(Some(310), Absent,    Some(12)) }
SeqsUpTo(S, n) == UNION { [1..k -> S] : k \in 0..n }
Forecasts == {EmptyDict} \cup { Dict({"list"}, l) : l \in SeqsUpTo(Samples, MaxSeries) }

AggInit ==
    /\ fc \in Forecasts
    /\ hours \in 1..MaxHours
    /\ agg = None
    /\ nslots = 0
    /\ now = T0 /\ cache = << >>
    /\ SysIdle /\ CacheIdle /\ ScoreIdle /\ BucketIdle

\* nslots observes how many samples the call read.
Aggregate ==
    /\ agg = None
    /\ agg' = aggregate_forecast(fc, hours)
    /\ nslots' = IF Steps(fc) = << >> THEN 0 ELSE Len(Slots(fc, hours))
    /\ UNCHANGED <<fc, hours>>
    /\ UNCHANGED <<sysVars, cacheVars, scoreVars, bucketVars>>

AggNext == Aggregate

SpecAgg == AggInit /\ [][AggNext]_vars

(***************************************************************************)
(* ScoringEngine: the catalog and the four sub-scores of recommend.  A     *)
(* sub-score is an exact fraction [n, d] with d > 0.                       *)
(***************************************************************************)
Crop(name, tex, mnph, mxph, mnt, mxt, rmin, rmax) ==
    [name |-> name, preferred_texture |-> tex, min_ph |-> mnph, max_ph |-> mxph,
     min_temp |-> mnt, max_temp |-> mxt, rain_window_mm |-> << rmin, rmax >>]

\* main.py:123-130 (pH in 1/20, temperatures in 1/10 C, rain in 1/10 mm)
crops ==
    << Crop("Rice",    "loamy", 110, 140, 200, 350, 400, 1800),
       Crop("Wheat",   "loamy", 120, 150, 100, 250, 150, 900),
       Crop("Maize",   "loamy", 110, 150, 180, 320, 200, 1200),
       Crop("Millet",  "sandy", 100, 160, 180, 350, 50,  800),
       Crop("Sorghum", "sandy", 110, 160, 200, 380, 80,  1000),
       Crop("Pulses",  "loamy", 120, 150, 150, 300, 80,  900) >>

Frac(n, d) == [n |-> n, d |-> d]

\* str.lower() on the soil names tried
Lower(x) == CASE x = "Loamy" -> "loamy" [] x = "SANDY" -> "sandy" [] OTHER -> x

\* main.py:132
texture_score(field, pref) ==
    IF Lower(field) = Lower(pref) THEN Frac(2, 2) ELSE Frac(1, 2)

\* main.py:133-134; mid and tol are doubled to stay in integers
ph_score_unclamped(val, mn, mx) ==
    LET mid2 == mn + mx
        tol2 == (mx - mn) + 20
    IN  Frac(tol2 - Abs(2 * val - mid2), tol2)
ph_score_narrow(val, mn, mx) ==
    LET mid2 == mn + mx
        tol2 == mx - mn
    IN  Frac(Max(0, tol2 - Abs(2 * val - mid2)), tol2)
ph_score(val, mn, mx) ==
    LET mid2 == mn + mx
        tol2 == (mx - mn) + 20
    IN  Frac(Max(0, tol2 - Abs(2 * val - mid2)), tol2)

\* main.py:135-140
temp_overlap_neutral(fmin, fmax, cmin, cmax) ==
    IF fmin = Absent \/ fmax = Absent THEN Frac(1, 2)
    ELSE LET lo == Max(fmin[1], cmin)
             hi == Min(fmax[1], cmax)
             overlap == Max(0, hi - lo)
             span == Max(10, cmax - cmin)
         IN  Frac(Min(span, overlap), span)
temp_overlap(fmin, fmax, cmin, cmax) ==
    IF fmin = Absent \/ fmax = Absent THEN Frac(0, 1)
    ELSE LET lo == Max(fmin[1], cmin)
             hi == Min(fmax[1], cmax)
             overlap == Max(0, hi - lo)
             span == Max(10, cmax - cmin)
         IN  Frac(Min(span, overlap), span)

\* main.py:141-145
rain_window_wide(total, win) ==
    LET rmin == win[1]
        rmax == win[2]
    IN  IF total <= rmin THEN Frac(Max(0, total), Max(10, rmax))
        ELSE IF total >= rmax
             THEN Frac(Max(0, Max(10, rmax) - (total - rmax)), Max(10, rmax))
        ELSE Frac(1, 1)
rain_window(total, win) ==
    LET rmin == win[1]
        rmax == win[2]
    IN  IF total <= rmin THEN Frac(Max(0, total), Max(10, rmin))
        ELSE IF total >= rmax
             THEN Frac(Max(0, Max(10, rmax) - (total - rmax)), Max(10, rmax))
        ELSE Frac(1, 1)

RECURSIVE Gcd(_, _)
Gcd(a, b) == IF b = 0 THEN a ELSE Gcd(b, a % b)
Lcm(a, b) == (a \div Gcd(a, b)) * b

\* round(x, 2) of a fraction, in 1/100
Round2(f) == RoundDiv(100 * f.n, f.d)

\* main.py:149-166: one crop's entry; score = round(score, 1) in 1/10
CropEntry(c, field, val, w) ==
    LET t_sc  == texture_score(field, c.preferred_texture)
        p_sc  == ph_score(val, c.min_ph, c.max_ph)
        to_sc == temp_overlap(w.min_temp, w.max_temp, c.min_temp, c.max_temp)
        rw_sc == rain_window(w.precip_sum_mm, c.rain_window_mm)
        L     == Lcm(Lcm(t_sc.d, p_sc.d), Lcm(to_sc.d, rw_sc.d))
        N     == 25 * t_sc.n * (L \div t_sc.d) + 25 * p_sc.n * (L \div p_sc.d)
                 + 30 * to_sc.n * (L \div to_sc.d) + 20 * rw_sc.n * (L \div rw_sc.d)
    IN  [crop |-> c.name,
         score |-> RoundDiv(10 * N, L),
         sub |-> [texture |-> t_sc, ph |-> p_sc, temp |-> to_sc, rain |-> rw_sc],
         reasons |-> [texture_match |-> Round2(t_sc),
                      ph_fit |-> Round2(p_sc),
                      forecast_temp_min_c |-> w.min_temp,
                      forecast_temp_max_c |-> w.max_temp,
                      temp_overlap |-> Round2(to_sc),
                      forecast_precip_mm |-> w.precip_sum_mm,
                      rain_window_fit |-> Round2(rw_sc)]]

\* sorted(results, key=score, reverse=True): stable, equal scores keep
\* their order
RECURSIVE InsertDescUnstable(_, _)
InsertDescUnstable(x, q) ==
    IF q = << >> THEN << x >>
    ELSE IF Head(q).score > x.score
         THEN << Head(q) >> \o InsertDescUnstable(x, Tail(q))
    ELSE << x >> \o q
RECURSIVE InsertDesc(_, _)
InsertDesc(x, q) ==
    IF q = << >> THEN << x >>
    ELSE IF Head(q).score >= x.score THEN << Head(q) >> \o InsertDesc(x, Tail(q))
    ELSE << x >> \o q
RECURSIVE SortedDesc(_)
SortedDesc(q) ==
    IF q = << >> THEN << >>
    ELSE InsertDesc(q[Len(q)], SortedDesc(SubSeq(q, 1, Len(q) - 1)))

\* main.py:147-168
Scored(field, val, w) ==
    SortedDesc([i \in DOMAIN crops |-> CropEntry(crops[i], field, val, w)])

(***************************************************************************)
(* SpecScore: the scoring of recommend applied to a request and a weather  *)
(* summary as aggregate_forecast returns them (both temperatures known     *)
(* with min <= max, or both unknown).                                      *)
(***************************************************************************)
Soils == {"loamy", "Loamy", "sandy", "clay"}
PhValues == {-20, 0, 90, 110, 125, 130, 140, 160, 280}
TempValues == {-50, 150, 200, 250, 300, 400}
\* every bound of a catalog rain window, values next to a bound, inside and
\* outside the windows
PrecipValues == {-10, 0, 49, 50, 51, 80, 150, 200, 400, 600, 800, 900, 1000,
                 1200, 1799, 1800, 1801, 2500, 4000}
Weathers ==
    { aggregate_forecast(f, FORECAST_HOURS) : f \in {EmptyDict, Stub, FcA, FcB} }
    \cup { Summary(Absent, Absent, p) : p \in PrecipValues }
    \cup { Summary(Some(w[1]), Some(w[2]), w[3]) :
             w \in { x \in TempValues \X TempValues \X PrecipValues : x[1] <= x[2] } }

ScoreInit ==
    /\ soil \in Soils
    /\ ph \in PhValues
    /\ weather \in Weathers
    /\ results = << >>
    /\ now = T0 /\ cache = << >>
    /\ SysIdle /\ CacheIdle /\ AggIdle /\ BucketIdle

Recommend ==
    /\ results = << >>
    /\ results' = Scored(soil, ph, weather)
    /\ UNCHANGED <<soil, ph, weather>>
    /\ UNCHANGED <<sysVars, cacheVars, aggVars, bucketVars>>

ScoreNext == Recommend

SpecScore == ScoreInit /\ [][ScoreNext]_vars

(***************************************************************************)
(* SpecBucket: the key _cache_get and _cache_put build (main.py:43, 53)    *)
(* for a coordinate pair and for the pair moved by eps on both axes.       *)
(* Coordinates lie around the equator and the Greenwich meridian, around   *)
(* a southern/western point and around a northern/eastern one.             *)
(***************************************************************************)
CoordSpan == 12
Lats == { b + d : b \in {-33870, 0, 12340}, d \in -CoordSpan..CoordSpan }
Lons == { b + d : b \in {-70650, 0, 77000}, d \in -CoordSpan..CoordSpan }
\* perturbations below half a bucket (0.005 degree)
Epsilons == { e \in -5..5 : Abs(e) < 5 }

BucketInit ==
    /\ lat \in Lats
    /\ lon \in Lons
    /\ eps \in Epsilons
    /\ keys = None
    /\ now = T0 /\ cache = << >>
    /\ SysIdle /\ CacheIdle /\ AggIdle /\ ScoreIdle

MakeKeys ==
    /\ keys = None
    /\ keys' = [base |-> CoordKey("forecast", lat, lon),
                near |-> CoordKey("forecast", lat + eps, lon + eps)]
    /\ UNCHANGED <<lat, lon, eps>>
    /\ UNCHANGED <<sysVars, cacheVars, aggVars, scoreVars>>

BucketNext == MakeKeys

SpecBucket == BucketInit /\ [][BucketNext]_vars

(***************************************************************************)
(* Claims about the weather acquisition layer.                             *)
(***************************************************************************)
Networking == {"rate_limit", "stamp", "call", "cache_put"}

\* C1 (as claimed): a fetch whose lookup found an unexpired entry, whatever
\* its payload, returns that payload without entering the rate limiter or
\* calling the provider.
C1_HitSkipsNetwork ==
    \A t \in Threads :
        hit[t] # None =>
            /\ pc[t] \notin Networking
            /\ attempts[t] = 0
            /\ (pc[t] = "done" => result[t] = Ok(hit[t]))

\* C2: _cache_get returns a payload only when the entry stored under the key
\* is at most CACHE_TTL old, and then that entry's payload; a lookup that
\* returns nothing leaves no entry under the key.
C2_NoExpiredServed ==
    cop # None /\ cop.op = "get" =>
        IF got # None
        THEN /\ cop.key \in DOMAIN cache
             /\ cop.at - cache[cop.key].ts <= CACHE_TTL
             /\ got = cache[cop.key].data
        ELSE cop.key \notin DOMAIN cache

\* C2 witness: a lookup of a key whose entry had expired returned a miss.
C2_W ==
    /\ cop # None /\ cop.op = "get" /\ got = None
    /\ cop.key \in DOMAIN lastput
    /\ cop.at - lastput[cop.key].ts > CACHE_TTL

\* C3 (as claimed): two successive returns of _respect_rate_limit are at
\* least OWM_MIN_INTERVAL apart, whatever the interleaving.
C3_MinInterval == spaced

C5_SingleErrorKind ==
    \A t \in Threads : IsRaise(result[t]) => result[t] = Raise("HTTPException502")

\* C6: with no credential configured a fetch returns the empty forecast
\* straight away: the cache stays untouched and unread, no call is made and
\* _last_owm_call_ts keeps its value.
C6_Degraded ==
    ~has_key =>
        /\ cache = << >>
        /\ last_ts = 0
        /\ spaced = TRUE
        /\ \A t \in Threads :
              /\ pc[t] \in {"idle", "fetch", "done"}
              /\ v[t] = None /\ hit[t] = None /\ data[t] = None
              /\ attempts[t] = 0
              /\ (pc[t] = "done" => result[t] = Ok(Stub))

\* C6 witness: without a credential, two fetches have returned the stub.
C6_W ==
    /\ ~has_key
    /\ \A t \in Threads : pc[t] = "done" /\ result[t] = Ok(Stub)

\* C7 (as claimed): a lookup never removes or replaces an unexpired entry.
C7_NoLostUpdate ==
    [][\A t \in Threads :
        (pc[t] = "cache_pop" /\ pc'[t] # "cache_pop") =>
            LET e == CacheLookup(cache, KeyOf(req[t]))
            IN  (e # None /\ Fresh(e, now)) =>
                    CacheLookup(cache', KeyOf(req[t])) = e
      ]_vars

\* C8: a put stores the payload under the key with the time of the put,
\* whatever was there; a get of a key within CACHE_TTL of the last put on
\* it returns exactly the payload put.
C8_RoundTrip ==
    cop # None =>
        /\ cop.op = "put" => CacheLookup(cache, cop.key) = Entry(cop.at, cop.data)
        /\ (cop.op = "get" /\ cop.key \in DOMAIN lastput
              /\ cop.at - lastput[cop.key].ts <= CACHE_TTL) =>
                 got = lastput[cop.key].data

\* C8 witness: a get at the very end of the TTL returned the payload last
\* put, here the empty object.
C8_W ==
    /\ cop # None /\ cop.op = "get"
    /\ cop.key \in DOMAIN lastput
    /\ cop.at - lastput[cop.key].ts = CACHE_TTL
    /\ got = lastput[cop.key].data
    /\ got = EmptyDict

(***************************************************************************)
(* Claims about the aggregator and the scoring.                            *)
(***************************************************************************)
CeilDiv(a, b) == (a + b - 1) \div b
Prefix(f, n) == Dict(f.keys, SubSeq(Steps(f), 1, n))

\* C9 (as claimed): aggregate reads exactly the first
\* min(len(series), max(1, ceil(hours / 3))) samples.
C9_CeilSamples ==
    agg # None => nslots = Min(Len(Steps(fc)), Max(1, CeilDiv(hours, 3)))

\* C9 (amended): aggregate reads exactly the first
\* min(len(series), max(1, floor(hours / 3))) samples: its result is that
\* of the series cut to this prefix, for every horizon and series length.
C9_FloorSamples ==
    agg # None =>
        LET n == Min(Len(Steps(fc)), Max(1, hours \div 3))
        IN  /\ nslots = n
            /\ agg = aggregate_forecast(Prefix(fc, n), 3 * MaxSeries)

\* C9 witness: a horizon above 3 that is no multiple of 3 and a series longer than
\* the samples read.
C9_W ==
    /\ agg # None
    /\ hours % 3 # 0 /\ hours > 3
    /\ nslots = hours \div 3
    /\ nslots < Len(Steps(fc))

\* C10: each of the four sub-scores of each crop lies in [0, 1] and each
\* final score in [0, 100], for every request and weather summary.
InUnit(f) == f.d > 0 /\ 0 <= f.n /\ f.n <= f.d
C10_ScoreRanges ==
    results # << >> =>
        \A i \in DOMAIN results :
            /\ InUnit(results[i].sub.texture)
            /\ InUnit(results[i].sub.ph)
            /\ InUnit(results[i].sub.temp)
            /\ InUnit(results[i].sub.rain)
            /\ 0 <= results[i].score /\ results[i].score <= 1000

\* C10 witness: a scoring with a pH far from every crop, a forecast range
\* wider than every crop's and precipitation beyond every window.
C10_W ==
    /\ results # << >>
    /\ ph = 280
    /\ weather = Summary(Some(-50), Some(400), 4000)
    /\ \A i \in DOMAIN results :
          /\ results[i].sub.ph.n = 0
          /\ results[i].sub.temp.n = results[i].sub.temp.d
          /\ results[i].sub.rain.n = 0

\* C11: recommend returns exactly one entry per catalog crop (six), ordered
\* by descending score, and entries with equal scores keep the catalog
\* order Rice, Wheat, Maize, Millet, Sorghum, Pulses.
CatalogOrder == << "Rice", "Wheat", "Maize", "Millet", "Sorghum", "Pulses" >>
CatalogPos(name) == CHOOSE i \in DOMAIN CatalogOrder : CatalogOrder[i] = name
C11_OnePerCropSorted ==
    results # << >> =>
        /\ Len(results) = 6
        /\ \A i \in DOMAIN CatalogOrder :
              Cardinality({ j \in DOMAIN results :
                              results[j].crop = CatalogOrder[i] }) = 1
        /\ \A j, k \in DOMAIN results :
              j < k =>
                \/ results[j].score > results[k].score
                \/ /\ results[j].score = results[k].score
                   /\ CatalogPos(results[j].crop) < CatalogPos(results[k].crop)

\* C11 witness: a ranking in which Wheat and Pulses score the same and are
\* listed in that order, next to crops that score differently.
C11_W ==
    /\ results # << >>
    /\ results[1].score > results[Len(results)].score
    /\ \E j, k \in DOMAIN results :
          /\ j < k
          /\ results[j].crop = "Wheat" /\ results[k].crop = "Pulses"
          /\ results[j].score = results[k].score

\* C12 (as claimed): for every lat, lon and eps with |eps| < 0.005 the key
\* of (lat, lon) equals the key of (lat + eps, lon + eps).
C12_StableEverywhere ==
    keys # None => keys.base = keys.near

\* C12 (amended): for every lat and lon that are multiples of 0.01 (bucket
\* centres) and every eps with |eps| < 0.005, the key of (lat + eps,
\* lon + eps) equals the key of (lat, lon), which holds lat and lon
\* themselves; for any other coordinates such a perturbation moves each
\* bucketed coordinate by at most one step of 0.01.
C12_StableAtCentres ==
    keys # None =>
        /\ (lat % 10 = 0 /\ lon % 10 = 0) =>
              /\ keys.near = keys.base
              /\ keys.base = << "forecast", lat \div 10, lon \div 10 >>
        /\ Abs(keys.near[2] - keys.base[2]) <= 1
        /\ Abs(keys.near[3] - keys.base[3]) <= 1

\* C12 witness: a pair of bucket centres south of the equator and west of
\* Greenwich, moved down by 0.004 degree, has been keyed.
C12_W ==
    /\ keys # None
    /\ lat < 0 /\ lon < 0
    /\ lat % 10 = 0 /\ lon % 10 = 0
    /\ eps = -4
    /\ keys.near = keys.base

\* C13: with no weather signal (the empty forecast of degraded mode, hence
\* the summary (None, None, 0.0)) the temperature sub-score and the rain
\* sub-score of every crop are 0 for every request, and the final score is
\* round(25 * texture + 25 * pH fit, 1).
CatalogCrop(name) == crops[CatalogPos(name)]
C13_NoSignal ==
    (results # << >> /\ weather = aggregate_forecast(Stub, FORECAST_HOURS)) =>
        /\ weather = Summary(Absent, Absent, 0)
        /\ \A i \in DOMAIN results :
              LET c == CatalogCrop(results[i].crop)
                  t == texture_score(soil, c.preferred_texture)
                  p == ph_score(ph, c.min_ph, c.max_ph)
              IN  /\ results[i].sub.temp.n = 0
                  /\ results[i].sub.rain.n = 0
                  /\ results[i].score
                       = RoundDiv(250 * (t.n * p.d + p.n * t.d), t.d * p.d)

\* C13 witness: a loamy field of pH 6.5 ranked without weather signal:
\* Maize leads with 25 + 25 = 50.0 and a sandy-soil crop scores less.
C13_W ==
    /\ results # << >>
    /\ weather = aggregate_forecast(Stub, FORECAST_HOURS)
    /\ soil = "loamy" /\ ph = 130
    /\ results[1].crop = "Maize" /\ results[1].score = 500
    /\ results[Len(results)].score < 500

\* C14: for every catalog crop, precipitation equal to the lower bound of
\* its rain window, equal to the upper bound or between them scores exactly
\* 1.0; precipitation strictly outside the window scores below 1.0 and
\* never below 0.
C14_RainWindowInclusive ==
    results # << >> =>
        \A i \in DOMAIN results :
            LET win   == CatalogCrop(results[i].crop).rain_window_mm
                total == weather.precip_sum_mm
                rw    == results[i].sub.rain
            IN  /\ rw.d > 0
                /\ (win[1] <= total /\ total <= win[2]) => rw.n = rw.d
                /\ (total < win[1] \/ total > win[2]) => (0 <= rw.n /\ rw.n < rw.d)

\* C14 witness: 8.0 mm is the lower bound of the Sorghum window (fit 1.0),
\* lies inside the Millet window (fit 1.0) and below the Rice window
\* (fit 0.2).
RainFit(name) ==
    LET i == CHOOSE j \in DOMAIN results : results[j].crop = name
    IN  results[i].sub.rain
C14_W ==
    /\ results # << >>
    /\ weather.precip_sum_mm = 80
    /\ RainFit("Sorghum").n = RainFit("Sorghum").d
    /\ RainFit("Millet").n = RainFit("Millet").d
    /\ 5 * RainFit("Rice").n = RainFit("Rice").d

\* The entry of a crop in the ranking, and fraction equality.
EntryOf(name) ==
    results[CHOOSE j \in DOMAIN results : results[j].crop = name]
FracIs(f, n, d) == f.d > 0 /\ f.n * d = n * f.d

\* C15 (as claimed): for soil_type "loamy", ph 6.5, a weather temperature
\* of 25 C (any forecast range holding 25 C) and 60 mm of precipitation,
\* Rice gets texture 1.0, pH fit about 1.0 (at least 0.95), temperature fit
\* 1.0 and rain fit 1.0, and the final score 100.0.
C15_RiceFullScore ==
    ( /\ results # << >>
      /\ soil = "loamy" /\ ph = 130
      /\ weather.min_temp # Absent /\ weather.max_temp # Absent
      /\ weather.min_temp[1] <= 250 /\ 250 <= weather.max_temp[1]
      /\ weather.precip_sum_mm = 600 ) =>
        LET e == EntryOf("Rice")
        IN  /\ FracIs(e.sub.texture, 1, 1)
            /\ 100 * e.sub.ph.n >= 95 * e.sub.ph.d
            /\ FracIs(e.sub.temp, 1, 1)
            /\ FracIs(e.sub.rain, 1, 1)
            /\ e.score = 1000

\* C15 (amended): for soil_type "loamy", ph 6.5 and 60 mm of precipitation,
\* Rice gets texture 1.0, pH fit 0.8 and rain fit 1.0; with a forecast that
\* is 25 C throughout (min = max = 25 C) its temperature overlap is 0.0 and
\* its score 65.0, and with a forecast range that covers the whole Rice
\* range 20..35 C its temperature overlap is 1.0 and its score 95.0.
C15_RiceScore ==
    ( /\ results # << >>
      /\ soil = "loamy" /\ ph = 130
      /\ weather.min_temp # Absent /\ weather.max_temp # Absent
      /\ weather.precip_sum_mm = 600 ) =>
        LET e  == EntryOf("Rice")
            lo == weather.min_temp[1]
            hi == weather.max_temp[1]
        IN  /\ FracIs(e.sub.texture, 1, 1)
            /\ FracIs(e.sub.ph, 4, 5)
            /\ FracIs(e.sub.rain, 1, 1)
            /\ (lo = 250 /\ hi = 250) =>
                  (FracIs(e.sub.temp, 0, 1) /\ e.score = 650)
            /\ (lo <= 200 /\ hi >= 350) =>
                  (FracIs(e.sub.temp, 1, 1) /\ e.score = 950)

\* C15 witness: the request scored against a forecast of 25 C throughout
\* and 60 mm: Rice has 65.0.
C15_W ==
    /\ results # << >>
    /\ soil = "loamy" /\ ph = 130
    /\ weather = Summary(Some(250), Some(250), 600)
    /\ EntryOf("Rice").score = 650

(***************************************************************************)
(* Further claims about the weather acquisition layer.                     *)
(***************************************************************************)
\* C16: with requests served one at a time, _respect_rate_limit returns
\* only when at least OWM_MIN_INTERVAL has passed since its previous return
\* and records the time of its own return in _last_owm_call_ts before
\* returning: consecutive returns are at least OWM_MIN_INTERVAL apart and
\* _last_owm_call_ts never decreases.
C16_SequentialInterval ==
    [][ /\ last_ts' >= last_ts
        /\ \A t \in Threads :
              (pc[t] = "stamp" /\ pc'[t] = "call") =>
                  /\ now - last_ts >= OWM_MIN_INTERVAL
                  /\ last_ts' = now
        /\ last_ts' # last_ts =>
              \E t \in Threads : pc[t] = "stamp" /\ pc'[t] = "call"
      ]_vars

\* C16 witness: the first fetch stored its payload at T0, so its acquire
\* returned at T0; the acquire of the next fetch has just returned, exactly
\* OWM_MIN_INTERVAL later.
C16_W ==
    /\ \E k \in DOMAIN cache : cache[k].ts = T0
    /\ nfetch = 2
    /\ now = T0 + OWM_MIN_INTERVAL
    /\ last_ts = now
    /\ \E t \in Threads : pc[t] = "call"

\* C17 (as claimed): every cache entry holds a payload of a successful
\* provider call, and a fetch that has ended in failure has left the cache
\* contents unchanged.
C17_FailureLeavesCache ==
    /\ \A k \in DOMAIN cache : cache[k].data \in ProviderPayloads
    /\ \A t \in Threads :
          (pc[t] = "done" /\ IsRaise(result[t])) => touched[t] = ""

\* C17 (amended): an entry is created or replaced only by the _cache_put of
\* a fetch whose provider call answered 200, under the bucket of that
\* fetch's coordinates and with the payload of that answer; the only other
\* change of the cache is a lookup removing the entry under its key.  A
\* fetch that ends in failure has stored no entry: the step that fails
\* leaves the cache as it is, and all such a fetch may have done is remove
\* the entry under its key in its lookup.
C17_OnlySuccessStores ==
    [][ /\ \A t \in Threads :
              (data'[t] # data[t] /\ data'[t] # None) =>
                  /\ pc[t] = "call"
                  /\ Resp(200, data'[t]) \in Outcomes
        /\ cache' # cache =>
              \E t \in Threads :
                  \/ /\ pc[t] = "cache_pop"
                     /\ cache' = [k \in DOMAIN cache \ {KeyOf(req[t])} |-> cache[k]]
                  \/ /\ pc[t] = "cache_put"
                     /\ attempts[t] = 1
                     /\ Resp(200, data[t]) \in Outcomes
                     /\ cache' = [k \in DOMAIN cache \cup {KeyOf(req[t])} |->
                                    IF k = KeyOf(req[t]) THEN Entry(now, data[t])
                                    ELSE cache[k]]
                     /\ result'[t] = Ok(data[t])
        /\ \A t \in Threads :
              (pc'[t] = "done" /\ IsRaise(result'[t])) =>
                  /\ touched'[t] \in {"", "removed"}
                  /\ pc[t] # "done" => cache' = cache
      ]_vars

\* C17 witness: a fetch has failed after its lookup removed the entry under
\* its key, while the entry another fetch stored is still there.
C17_W ==
    \E t \in Threads :
        /\ pc[t] = "done" /\ IsRaise(result[t])
        /\ touched[t] = "removed"
        /\ KeyOf(req[t]) \notin DOMAIN cache
        /\ cache # << >>

\* C18: fetch never serves an expired payload: a fetch returns a payload
\* only as the degraded stub, as the payload of an entry that is within the
\* TTL when _cache_get tests it, or as the payload its own provider call
\* just returned; a fetch whose provider call fails ends in the error,
\* also when its lookup found the entry expired.
C18_NeverStale ==
    [][ \A t \in Threads :
          /\ (pc[t] # "done" /\ pc'[t] = "done" /\ IsOk(result'[t])) =>
                \/ ~has_key /\ pc[t] = "fetch" /\ result'[t] = Ok(Stub)
                \/ /\ pc[t] = "cache_ttl"
                   /\ now - v[t].ts <= CACHE_TTL
                   /\ result'[t] = Ok(v[t].data)
                \/ /\ pc[t] = "cache_put"
                   /\ attempts[t] = 1
                   /\ result'[t] = Ok(data[t])
          /\ (pc[t] = "cache_ttl" /\ now - v[t].ts > CACHE_TTL) =>
                pc'[t] \in {"cache_ttl", "cache_pop"}
          /\ (pc[t] = "call" /\ pc'[t] = "done") => IsRaise(result'[t])
          /\ (pc[t] = "call" /\ pc'[t] # "call") =>
                pc'[t] \in {"done", "cache_put"}
      ]_vars

\* C18 witness: the second of two fetches found the entry of the first
\* older than the TTL, removed it, called the provider and ended in the
\* provider's failure.
C18_W ==
    \E t \in Threads :
        /\ nfetch = 2
        /\ pc[t] = "done" /\ IsRaise(result[t])
        /\ attempts[t] = 1
        /\ touched[t] = "removed"
        /\ \A u \in Threads \ {t} : pc[u] = "idle"

\* C19: every fetch that starts eventually finishes, with a payload or an
\* error, under any interleaving of the requests; the rate limiter never
\* blocks a request forever, and no request waits on another: an
\* unfinished fetch can always take its next step, unless it is asleep in
\* the rate limiter, which ends with the passing of time alone.
InFlight == {"fetch", "cache_get", "cache_ttl", "cache_pop", "rate_limit",
             "stamp", "call", "cache_put"}
C19_EveryFetchFinishes ==
    /\ [](\A t \in Threads :
            pc[t] \in InFlight => (Sleeping(t) \/ ENABLED Step(t)))
    /\ \A t \in Threads : (pc[t] = "fetch") ~> (pc[t] = "done")
    /\ \A t \in Threads : (pc[t] = "stamp") ~> (pc[t] = "call")

\* C19 witness: two requests in flight at once have both finished after a
\* provider call each, the second having gone through the rate limiter
\* while the first was still in flight.
C19_W ==
    /\ \A t \in Threads : pc[t] = "done" /\ attempts[t] = 1
    /\ ~spaced

(***************************************************************************)
(* A further claim about the aggregator.                                   *)
(***************************************************************************)
\* C20: over the samples used (the first nslots of the series), min_temp
\* and max_temp are the least and the greatest temperature of the samples
\* that have one, and both are None exactly when no used sample has a
\* temperature (an empty series gives (None, None, 0.0)); precip_sum_mm is
\* the sum of rain and snow of every used sample, those without a
\* temperature included and an absent amount counted as 0, rounded to
\* 0.1 mm.
Used == SubSeq(Steps(fc), 1, nslots)
UsedTemps == { Used[i].temp[1] : i \in { j \in DOMAIN Used : Used[j].temp # Absent } }
RECURSIVE RainSnowUpTo(_)
RainSnowUpTo(n) ==
    IF n = 0 THEN 0
    ELSE RainSnowUpTo(n - 1)
         + (IF Used[n].rain = Absent THEN 0 ELSE Used[n].rain[1])
         + (IF Used[n].snow = Absent THEN 0 ELSE Used[n].snow[1])
C20_MinMaxAndSum ==
    agg # None =>
        /\ (UsedTemps = {}) <=> (agg.min_temp = Absent)
        /\ (UsedTemps = {}) <=> (agg.max_temp = Absent)
        /\ UsedTemps # {} =>
              /\ agg.min_temp[1] \in UsedTemps
              /\ agg.max_temp[1] \in UsedTemps
              /\ \A x \in UsedTemps : agg.min_temp[1] <= x /\ x <= agg.max_temp[1]
        /\ 10 * agg.precip_sum_mm - RainSnowUpTo(nslots) \in -5..5
        /\ Steps(fc) = << >> => agg = Summary(Absent, Absent, 0)

\* C20 witness: three samples used of a longer series, the second without
\* a temperature but with 0.4 mm of rain and 0.3 mm of snow: the summary
\* has min 18.0, max 31.0 and 0.8 mm (0.12 + 0.7 of the second sample,
\* rounded).
C20_W ==
    /\ agg # None
    /\ nslots = 3 /\ Len(Steps(fc)) > 3
    /\ Used = << Sample(Some(310), Absent, Some(12)),
                 Sample(Absent, Some(40), Some(30)),
                 Sample(Some(180), Absent, Absent) >>
    /\ agg = Summary(Some(180), Some(310), 8)
=============================================================================
